---- MODULE Spec2Model ----
(***************************************************************************)
(* Model of the GCP Pub/Sub -> OCI Streaming bridge:                       *)
(*   bridge/oci_stream_sender.py  OciStreamSender, MessageBuffer           *)
(*   bridge/gcp_subscriber.py     PubSubBridge._callback, PubSubBridge.run *)
(* Handler invocations run on the subscriber's worker threads; run() is    *)
(* the main thread.  Every thread is a program counter plus the locals of  *)
(* the function it is in; a step is one statement group between two points *)
(* at which another thread can be scheduled.                               *)
(***************************************************************************)
EXTENDS Integers, Sequences, FiniteSets, TLC

\* ---------------------------------------------------------------- bounds
MaxMsgs == 2        \* inbound messages published to the subscription
MaxErrors == 2      \* deliveries stop once errors reaches this cap
MaxPolls == 2        \* polls of the drain loop before the clock stops
MaxLen == 4         \* longest payload list drawn for send_with_limits alone
MaxEntryErrors == 1 \* entries the outbound API rejects in one run
MaxAdds == 4        \* messages of a run in which one add follows the other
MaxMembers == 2     \* members of a JSON object drawn for _enrich alone

\* ------------------------------------------------------- program constants
Overhead == 50      \* envelope bytes per message in estimate_batch_bytes
PollInterval == 5   \* time.sleep(5) of the drain loop

\* ------------------------------------------------------------ input sets
\* worker threads of the subscriber; 0 is the thread that executes run
Handlers == {1, 2}
Main == 0
Threads == Handlers \cup {Main}

\* <<MAX_BATCH_SIZE, MAX_BATCH_BYTES>>: a count-bound and a byte-bound one
Limits == {<<2, 1000>>, <<3, 150>>}
\* the limits drawn for send_with_limits alone
FnLimits == {1, 2, 3} \X {110, 150, 250}
Timeouts == {10}
DrainTimeouts == {5, 7, 10}
\* what main and PubSubBridge.__init__ read from the environment before run
\* is called, in the order they read it: a missing variable raises KeyError,
\* a stream pool's OCID or no key at all RuntimeError, a key file that cannot
\* be read OSError, a key without PEM markers or a limit that is no integer
\* ValueError, a malformed OCI configuration what validate_config or the
\* StreamClient constructor raise
StartupReads ==
    <<"OCI_MESSAGE_ENDPOINT", "OCI_STREAM_OCID", "streampool",
      "OCI_KEY_FILE", "OCI_KEY_CONTENT", "OCI_USER_OCID", "OCI_FINGERPRINT",
      "OCI_TENANCY_OCID", "OCI_REGION", "validate_config", "MAX_BATCH_SIZE",
      "MAX_BATCH_BYTES", "GCP_PROJECT_ID", "GCP_PUBSUB_SUBSCRIPTION",
      "INACTIVITY_TIMEOUT">>
\* the members drawn for the objects given to _enrich alone
MemberSet == [key : {"a", "cloudProvider"}, val : {"1", "AWS", "GCP"}]
\* the limits drawn for runs of adds one after another: the count limit
\* alone binding, and the byte limit alone binding
ScnLimits == {<<1, 1000>>, <<2, 1000>>, <<3, 1000>>, <<10, 108>>, <<10, 150>>}
\* the same down to the smallest limits that add can work with:
\* MAX_BATCH_SIZE=1, and the MAX_BATCH_BYTES=0 that max_batch_bytes() accepts
AddLimits == {<<1, 1000>>, <<2, 1000>>, <<10, 150>>, <<10, 0>>}

\* A body is what message.data holds: n bytes that are text that is not
\* JSON, a JSON object (members: its keys and values in the order of the
\* text), another JSON value, an empty or whitespace-only text, or bytes that
\* are not valid UTF-8.  The values are the number 1 and the strings AWS and
\* GCP.
Bodies ==
    <<[kind |-> "text", n |-> 1, members |-> <<>>],
      [kind |-> "object", n |-> 7, members |-> <<[key |-> "a", val |-> "1"]>>],
      [kind |-> "text", n |-> 100, members |-> <<>>],
      [kind |-> "blank", n |-> 1, members |-> <<>>],
      [kind |-> "invalid", n |-> 1, members |-> <<>>]>>
\* the bodies that reach the buffer
Texts == {Bodies[i] : i \in {j \in 1..Len(Bodies) : Bodies[j].kind \in {"text", "object"}}}

VARIABLES
    max_count,          \* MessageBuffer.max_count
    max_bytes,          \* MessageBuffer.max_bytes
    run_forever,        \* argument of run
    timeout,            \* PubSubBridge._timeout
    body,               \* message.data of every message
    mstate,             \* "pending" | "inflight" | "acked" per message
    buf,                \* MessageBuffer.buf
    sent, failed, batches,              \* MessageBuffer counters
    processed, errors,                  \* PubSubBridge counters
    last_message_time,                  \* PubSubBridge._last_message_time
    pull,               \* streaming pull future: "none" | "open" | "error" | "cancelled"
    pc,                 \* position of every thread
    loc,                \* locals of every thread
    now,                \* time.time(), read at the granularity of the poll
    sentCnt,            \* history: how often each message's payload was put on the wire
    wireCalls,          \* history: number of put_messages calls
    wireRaised,         \* history: a put_messages call has raised
    finalFlush,         \* history: run reached self.buffer.flush()
    doc,                \* a body and the results of _enrich applied to it again and again
    defect              \* the setting of the environment that is missing or invalid, or "none"

vars == <<max_count, max_bytes, run_forever, timeout, body, mstate, buf,
          sent, failed, batches, processed, errors, last_message_time,
          pull, pc, loc, now, sentCnt, wireCalls,
          wireRaised, finalFlush, doc, defect>>

config == <<max_count, max_bytes, run_forever, timeout, body, defect>>
hist == <<sentCnt, wireCalls, wireRaised>>
bcount == <<sent, failed, batches>>
clock == <<now>>

\* ---------------------------------------------------------------- helpers
RECURSIVE SumSeq(_)
SumSeq(s) == IF s = <<>> THEN 0 ELSE Head(s) + SumSeq(Tail(s))

\* mutant: the bytes are counted as they are, not as base64 text
B64Len_Raw(n) == n

\* len(b64encode(x)) for x of n bytes: 4 characters per started 3-byte group
B64Len(n) == 4 * ((n + 2) \div 3)

\* OciStreamSender.estimate_batch_bytes
EstimateBatchBytes(messages) ==
    SumSeq([i \in 1..Len(messages) |-> B64Len(messages[i].n)])
        + Len(messages) * Overhead

\* len(s) of the keys drawn
KeyLen(k) == IF k = "cloudProvider" THEN 13 ELSE 1

\* len(json.dumps(v)) of the values drawn: 1, "AWS", "GCP"
ValLen(v) == IF v = "1" THEN 1 ELSE 5

\* the kinds of body that json.loads accepts
JsonKinds == {"object", "array", "string", "number", "boolean", "null"}

\* mutant: a key that is present gets a second member
SetItem_AlwaysAppend(d, k, v) == Append(d, [key |-> k, val |-> v])

\* d[k] = v on a dict: the value of an existing key is replaced where it
\* stands, a new key goes last
SetItem(d, k, v) ==
    IF \E i \in 1..Len(d) : d[i].key = k
      THEN [i \in 1..Len(d) |-> IF d[i].key = k THEN [key |-> k, val |-> v] ELSE d[i]]
      ELSE Append(d, [key |-> k, val |-> v])

RECURSIVE LoadsInto(_, _)
LoadsInto(d, members) ==
    IF members = <<>> THEN d
    ELSE LoadsInto(SetItem(d, Head(members).key, Head(members).val), Tail(members))

\* json.loads on the text of an object: the members in the order of the
\* text, a repeated key keeping its first place and its last value
Loads(members) == LoadsInto(<<>>, members)

\* obj["cloudProvider"] = "GCP"
SetProvider(obj) == SetItem(obj, "cloudProvider", "GCP")

\* len(json.dumps(obj, separators=(",", ":"))): the braces, per member the
\* quoted key, the colon and the value, and the commas between members
DumpsLen(members) ==
    2 + SumSeq([i \in 1..Len(members) |->
                  KeyLen(members[i].key) + 2 + 1 + ValLen(members[i].val)])
      + (IF Len(members) = 0 THEN 0 ELSE Len(members) - 1)

\* mutant: the key is set on whatever json.loads returns
ItemAssignable_AnyJson(kind) == TRUE

\* obj["cloudProvider"] = ... succeeds on a dict; on a list, str, int,
\* float, bool or None it raises TypeError
ItemAssignable(kind) == kind = "object"

\* PubSubBridge._enrich on a decoded, non-blank body: a JSON object gets the
\* provider key and is serialised compactly; on text that is not JSON
\* json.loads raises JSONDecodeError, on any other JSON value the item
\* assignment raises TypeError, and the except clause returns the body
\* unchanged
Enrich(b) ==
    IF b.kind \in JsonKinds /\ ItemAssignable(b.kind)
      THEN LET obj == SetProvider(Loads(b.members)) IN
           [kind |-> "object", members |-> obj, n |-> DumpsLen(obj)]
      ELSE b

\* mutant: the thresholds compared with > instead of >=
ShouldFlush_Strict(force, b) ==
    \/ force
    \/ Len(b) > max_count
    \/ EstimateBatchBytes(b) > max_bytes

\* the condition of MessageBuffer._flush_if_needed, after the emptiness test
ShouldFlush(force, b) ==
    \/ force
    \/ Len(b) >= max_count
    \/ EstimateBatchBytes(b) >= max_bytes

\* mutant: the count of the batch before its extension is compared
OverLimit_PreExtension(candidate) ==
    \/ Len(candidate) - 1 > max_count
    \/ EstimateBatchBytes(candidate) > max_bytes

\* mutant: only the count splits
OverLimit_CountOnly(candidate) == Len(candidate) > max_count

\* the split condition of send_with_limits
OverLimit(candidate) ==
    \/ Len(candidate) > max_count
    \/ EstimateBatchBytes(candidate) > max_bytes

\* mutant: the payload that did not fit is dropped
StartBatch_Drop(p) == <<>>

\* send_with_limits, "batch = [p]": the candidate after a sub-batch was sent
StartBatch(p) == <<p>>

\* mutant: the buffer is not cleared
Cleared_Keep(b) == b

\* _flush_if_needed, "self.buf.clear()"
Cleared(b) == <<>>

\* mutant: the exception is swallowed below _callback, which goes on to ack
Caught_Swallowed(t) == IF t = Main THEN "raised" ELSE "ack"

\* Where an exception raised under buffer.add or buffer.flush lands: nothing
\* between put_messages and _callback catches it, "except Exception" of
\* _callback does; in run the finally block has no except clause.
Caught(t) == IF t = Main THEN "raised" ELSE "except"

\* mutant: message.ack() comes first
BeforeAdd_AckFirst == "acked"

\* _callback hands the payload to buffer.add before message.ack(): the
\* message is unacknowledged while add runs
BeforeAdd == "inflight"

\* mutant: bytes that are not UTF-8 are decoded leniently
DecodeFails_Never(b) == FALSE

\* _callback, message.data.decode("utf-8") raises UnicodeDecodeError
DecodeFails(b) == b.kind = "invalid"

\* mutant: the blank test is missing
IsBlank_Never(b) == FALSE

\* _callback, "not body or body.isspace()" on the decoded body
IsBlank(b) == b.kind = "blank"

\* mutant: the except clauses acknowledge
Nacked_Acked == "acked"

\* message.nack() in the except clauses of _callback: the message is handed
\* back to the subscription, which delivers it again
Nacked == "pending"

\* seen: the values of self.sent, self.failed, self.batches that the three
\* "+=" of _flush_if_needed have loaded
NoLocals ==
    [msg |-> 0, idx |-> 0, batch |-> <<>>, out |-> <<>>,
     total_sent |-> 0, total_failed |-> 0, nbatches |-> 0,
     seen |-> <<0, 0, 0>>]

\* locals of send_with_limits at its first statement
SwlLocals(m) ==
    [msg |-> m, idx |-> 1, batch |-> <<>>, out |-> <<>>,
     total_sent |-> 0, total_failed |-> 0, nbatches |-> 0,
     seen |-> <<0, 0, 0>>]

Ids(s) == [i \in 1..Len(s) |-> s[i].id]

RECURSIVE Bump(_, _)
\* sentCnt with every id of the sequence ids counted once more
Bump(cnt, ids) ==
    IF ids = <<>> THEN cnt
    ELSE Bump([cnt EXCEPT ![Head(ids)] = @ + 1], Tail(ids))

AllIdle == \A h \in Handlers : pc[h] = "idle"

\* ------------------------------------------------------------------- Init
\* PubSubBridge.__init__ and MessageBuffer.__init__: empty buffer, zeroed
\* counters, _last_message_time = time.time(); nothing subscribed yet.
\* M is the set of messages the subscription will deliver.
InitAt(M, p, D, T, F) ==
    /\ defect \in D
    /\ \E l \in Limits : max_count = l[1] /\ max_bytes = l[2]
    /\ run_forever \in F
    /\ timeout \in T
    /\ \E ix \in [M -> 1..Len(Bodies)] :
          \* messages are interchangeable: one order of each multiset of bodies
          /\ \A m \in M : m > 1 => ix[m - 1] <= ix[m]
          /\ body = [m \in M |-> Bodies[ix[m]]]
    /\ mstate = [m \in M |-> "pending"]
    /\ buf = <<>>
    /\ sent = 0 /\ failed = 0 /\ batches = 0
    /\ processed = 0 /\ errors = 0
    /\ now = 0
    /\ last_message_time = 0
    /\ pull = "none"
    /\ pc = [t \in Threads |-> IF t = Main THEN p ELSE "idle"]
    /\ loc = [t \in Threads |-> NoLocals]
    /\ sentCnt = [m \in M |-> 0]
    /\ wireCalls = 0
    /\ wireRaised = FALSE
    /\ finalFlush = FALSE
    /\ doc = <<>>

\* a bridge that was constructed from a valid environment, run not yet called
InitWith(M) == InitAt(M, "init", {"none"}, Timeouts, BOOLEAN)

Init == InitWith(1..MaxMsgs)

\* main entered with any environment: valid, or with one setting missing or
\* invalid
MainInit ==
    InitAt(1..MaxMsgs, "start",
           {"none"} \cup {StartupReads[i] : i \in DOMAIN StartupReads},
           Timeouts, BOOLEAN)

\* drain mode, with an inactivity timeout of one poll interval, of between
\* one and two, and of two
DrnInit == InitAt(1..MaxMsgs, "init", {"none"}, DrainTimeouts, {FALSE})

\* run at self.buffer.flush() with any list of up to MaxLen payloads in the
\* buffer and any of FnLimits: the inputs of send_with_limits
FnInit ==
    /\ \E l \in FnLimits : max_count = l[1] /\ max_bytes = l[2]
    /\ run_forever = TRUE
    /\ timeout \in Timeouts
    /\ \E k \in 0..MaxLen : body \in [1..k -> Texts]
    /\ mstate = [m \in DOMAIN body |-> "acked"]
    /\ buf = [m \in DOMAIN body |-> [id |-> m, n |-> Enrich(body[m]).n]]
    /\ sent = 0 /\ failed = 0 /\ batches = 0
    /\ processed = Len(buf) /\ errors = 0
    /\ now = 0
    /\ last_message_time = 0
    /\ pull = "cancelled"
    /\ pc = [t \in Threads |-> IF t = Main THEN "check" ELSE "idle"]
    /\ loc = [t \in Threads |-> NoLocals]
    /\ sentCnt = [m \in DOMAIN body |-> 0]
    /\ wireCalls = 0
    /\ wireRaised = FALSE
    /\ finalFlush = TRUE
    /\ doc = <<>>
    /\ defect = "none"

\* the bridge before run, with up to MaxAdds messages that all reach
\* buffer.add, in any order, and any of ScnLimits
ScnInitWith(L) ==
    /\ \E l \in L : max_count = l[1] /\ max_bytes = l[2]
    /\ run_forever = TRUE
    /\ timeout \in Timeouts
    /\ \E k \in 0..MaxAdds : body \in [1..k -> Texts]
    /\ mstate = [m \in DOMAIN body |-> "pending"]
    /\ buf = <<>>
    /\ sent = 0 /\ failed = 0 /\ batches = 0
    /\ processed = 0 /\ errors = 0
    /\ now = 0
    /\ last_message_time = 0
    /\ pull = "none"
    /\ pc = [t \in Threads |-> IF t = Main THEN "init" ELSE "idle"]
    /\ loc = [t \in Threads |-> NoLocals]
    /\ sentCnt = [m \in DOMAIN body |-> 0]
    /\ wireCalls = 0
    /\ wireRaised = FALSE
    /\ finalFlush = FALSE
    /\ doc = <<>>
    /\ defect = "none"

ScnInit == ScnInitWith(ScnLimits)

\* the same bridge with any of AddLimits
AddInit == ScnInitWith(AddLimits)

RECURSIVE SeqsUpTo(_, _)
\* the sequences over S of length k at most
SeqsUpTo(S, k) ==
    IF k = 0 THEN {<<>>}
    ELSE LET shorter == SeqsUpTo(S, k - 1) IN
         shorter \cup {Append(q, x) : q \in shorter, x \in S}

\* the bodies given to _enrich alone: objects of up to MaxMembers members,
\* keys repeated or not, written compactly or with one byte of whitespace;
\* the other JSON values; text that is not JSON
EnrichInputs ==
    {[kind |-> "object", members |-> ms, n |-> DumpsLen(ms) + pad] :
        ms \in SeqsUpTo(MemberSet, MaxMembers), pad \in {0, 1}}
    \cup [kind : (JsonKinds \ {"object"}) \cup {"text"}, members : {<<>>},
          n : {2, 4}]

\* _enrich alone, on any of EnrichInputs; the bridge is not running
EnrInit ==
    /\ doc \in {<<b>> : b \in EnrichInputs}
    /\ max_count = 2 /\ max_bytes = 1000
    /\ run_forever = TRUE
    /\ timeout \in Timeouts
    /\ body = <<>>
    /\ mstate = <<>>
    /\ buf = <<>>
    /\ sent = 0 /\ failed = 0 /\ batches = 0
    /\ processed = 0 /\ errors = 0
    /\ now = 0
    /\ last_message_time = 0
    /\ pull = "none"
    /\ pc = [t \in Threads |-> IF t = Main THEN "init" ELSE "idle"]
    /\ loc = [t \in Threads |-> NoLocals]
    /\ sentCnt = <<>>
    /\ wireCalls = 0
    /\ wireRaised = FALSE
    /\ finalFlush = FALSE
    /\ defect = "none"

\* _enrich called on the value it returned last
EnrichStep ==
    /\ Len(doc) \in {1, 2}
    /\ doc' = Append(doc, Enrich(doc[Len(doc)]))
    /\ UNCHANGED <<config, mstate, buf, bcount, processed, errors,
                   last_message_time, pull, pc, loc, clock, hist, finalFlush>>

\* --------------------------------------------------- the inbound handler
\* The subscriber hands a message that is neither acknowledged nor being
\* handled to _callback on the first free worker thread (a nacked message is
\* delivered again), and _callback decodes it: on invalid UTF-8 the first
\* except clause nacks the message and counts an error, a blank body is
\* acknowledged and dropped, any other body goes on to buffer.add.
Callback(t, m) ==
    /\ t \in Handlers
    /\ pc[t] = "idle"
    /\ \A h \in Handlers : h < t => pc[h] /= "idle"
    /\ pull = "open"
    /\ mstate[m] = "pending"
    /\ errors < MaxErrors
    /\ LET b == body[m] IN
        \/ /\ DecodeFails(b)
           /\ mstate' = [mstate EXCEPT ![m] = Nacked]
           /\ errors' = errors + 1
           /\ UNCHANGED <<pc, loc>>
        \/ /\ ~DecodeFails(b) /\ IsBlank(b)
           /\ mstate' = [mstate EXCEPT ![m] = "acked"]
           /\ UNCHANGED <<pc, loc, errors>>
        \/ /\ ~DecodeFails(b) /\ ~IsBlank(b)
           /\ mstate' = [mstate EXCEPT ![m] = BeforeAdd]
           /\ pc' = [pc EXCEPT ![t] = "add"]
           /\ loc' = [loc EXCEPT ![t] = [NoLocals EXCEPT !.msg = m]]
           /\ UNCHANGED errors
    /\ UNCHANGED <<config, doc, buf, bcount, processed, last_message_time,
                   pull, clock, hist, finalFlush>>

\* MessageBuffer.add, first statement: self.buf.append(payload)
Add(t) ==
    /\ t \in Handlers
    /\ pc[t] = "add"
    /\ LET m == loc[t].msg IN
       buf' = Append(buf, [id |-> m, n |-> Enrich(body[m]).n])
    /\ pc' = [pc EXCEPT ![t] = "check"]
    /\ UNCHANGED <<config, doc, mstate, bcount, processed, errors,
                   last_message_time, pull, loc, clock, hist, finalFlush>>

\* MessageBuffer._flush_if_needed up to the call of send_with_limits; force
\* is set only by MessageBuffer.flush, which only run calls.
FlushIfNeeded(t) ==
    /\ pc[t] = "check"
    /\ IF buf /= <<>> /\ ShouldFlush(t = Main, buf)
         THEN /\ pc' = [pc EXCEPT ![t] = "loop"]
              /\ loc' = [loc EXCEPT ![t] = SwlLocals(loc[t].msg)]
         ELSE /\ pc' = [pc EXCEPT ![t] = IF t = Main THEN "log" ELSE "ack"]
              /\ UNCHANGED loc
    /\ UNCHANGED <<config, doc, mstate, buf, bcount, processed, errors,
                   last_message_time, pull, clock, hist, finalFlush>>

\* ----------------------------------------------------------- send_batch
\* per-entry errors reported so far
EntryErrors == failed + SumSeq([t \in 1..Cardinality(Threads) |-> loc[t - 1].total_failed])

\* mutant: an entry with an error is counted as sent too
Counted_AllSent(b, errs) == <<Len(b), Cardinality(errs)>>

\* send_batch, the loop over resp.data.entries: (sent, failed) for a response
\* that reports an error for the entries at the positions errs
Counted(b, errs) == <<Len(b) - Cardinality(errs), Cardinality(errs)>>

\* The effect of send_batch(b) called by thread t inside send_with_limits,
\* with per-entry errors reported for the entries at the positions errs,
\* nxt the candidate batch that send_with_limits continues with, and rd the
\* counter values loaded by the caller of send_with_limits on its return.  An empty b
\* returns (0, 0) before any wire call.
SendBatchOk(t, b, errs, nxt, idx2, rd) ==
    /\ EntryErrors + Cardinality(errs) <= MaxEntryErrors
    /\ loc' = [loc EXCEPT ![t] =
                 [@ EXCEPT !.total_sent = @ + Counted(b, errs)[1],
                           !.total_failed = @ + Counted(b, errs)[2],
                           !.nbatches = @ + 1,
                           !.out = @ \o b,
                           !.batch = nxt,
                           !.idx = idx2,
                           !.seen = rd]]
    /\ IF b = <<>>
         THEN UNCHANGED hist
         ELSE /\ sentCnt' = Bump(sentCnt, Ids(b))
              /\ wireCalls' = wireCalls + 1
              /\ UNCHANGED wireRaised

\* client.put_messages raises inside send_batch(b): nothing catches it in
\* send_batch, send_with_limits or _flush_if_needed, so thread t is next in
\* the except clause of _callback, or out of run when t is the main thread.
SendBatchRaise(t, b) ==
    /\ b /= <<>>
    /\ wireRaised' = TRUE
    /\ wireCalls' = wireCalls + 1
    /\ UNCHANGED sentCnt
    /\ pc' = [pc EXCEPT ![t] = Caught(t)]
    /\ loc' = [loc EXCEPT ![t] = [NoLocals EXCEPT !.msg = loc[t].msg]]

\* send_with_limits, one iteration of "for p in payloads": payloads is the
\* list object self.buf itself, read at the iterator's index.
SwlLoop(t) ==
    /\ pc[t] = "loop"
    /\ loc[t].idx <= Len(buf)
    /\ LET l == loc[t]
           p == buf[l.idx]
           candidate == Append(l.batch, p)
       IN IF OverLimit(candidate)
            THEN \/ /\ \E errs \in SUBSET (1..Len(l.batch)) :
                          SendBatchOk(t, l.batch, errs, StartBatch(p),
                                      l.idx + 1, l.seen)
                    /\ UNCHANGED pc
                 \/ SendBatchRaise(t, l.batch)
            ELSE /\ loc' = [loc EXCEPT ![t] =
                              [@ EXCEPT !.batch = candidate, !.idx = @ + 1]]
                 /\ UNCHANGED <<pc, hist>>
    /\ UNCHANGED <<config, doc, mstate, buf, bcount, processed, errors,
                   last_message_time, pull, clock, finalFlush>>

\* send_with_limits after the loop: the iterator finds no element at its
\* index, the remaining batch is sent if it is not empty.  Back in
\* _flush_if_needed the three "+=" load the counters: MessageBuffer holds no
\* lock, so another thread can run between these loads and the stores.
SwlTail(t) ==
    /\ pc[t] = "loop"
    /\ loc[t].idx > Len(buf)
    /\ LET l == loc[t] IN
        IF l.batch /= <<>>
          THEN \/ /\ \E errs \in SUBSET (1..Len(l.batch)) :
                        SendBatchOk(t, l.batch, errs, l.batch, l.idx,
                                    <<sent, failed, batches>>)
                  /\ pc' = [pc EXCEPT ![t] = "commit"]
               \/ SendBatchRaise(t, l.batch)
          ELSE /\ pc' = [pc EXCEPT ![t] = "commit"]
               /\ loc' = [loc EXCEPT ![t].seen = <<sent, failed, batches>>]
               /\ UNCHANGED hist
    /\ UNCHANGED <<config, doc, mstate, buf, bcount, processed, errors,
                   last_message_time, pull, clock, finalFlush>>

\* _flush_if_needed after send_with_limits returned (s, f, b): the three
\* "+=" store the values they loaded increased by s, f and b, and the buffer
\* is cleared.
FlushCommit(t) ==
    /\ pc[t] = "commit"
    /\ sent' = loc[t].seen[1] + loc[t].total_sent
    /\ failed' = loc[t].seen[2] + loc[t].total_failed
    /\ batches' = loc[t].seen[3] + loc[t].nbatches
    /\ buf' = Cleared(buf)
    /\ pc' = [pc EXCEPT ![t] = IF t = Main THEN "log" ELSE "ack"]
    /\ loc' = [loc EXCEPT ![t] = [NoLocals EXCEPT !.msg = loc[t].msg]]
    /\ UNCHANGED <<config, doc, mstate, processed, errors, last_message_time,
                   pull, clock, hist, finalFlush>>

\* _callback after buffer.add returned: message.ack(), then under the lock
\* processed += 1 and _last_message_time = time.time()
Ack(t) ==
    /\ t \in Handlers
    /\ pc[t] = "ack"
    /\ mstate' = [mstate EXCEPT ![loc[t].msg] = "acked"]
    /\ processed' = processed + 1
    /\ last_message_time' = now
    /\ pc' = [pc EXCEPT ![t] = "idle"]
    /\ loc' = [loc EXCEPT ![t] = NoLocals]
    /\ UNCHANGED <<config, doc, buf, bcount, errors, pull, clock, hist, finalFlush>>

\* _callback, except Exception: message.nack(), then errors += 1 under the
\* lock.  The nacked message is delivered again.
Except(t) ==
    /\ t \in Handlers
    /\ pc[t] = "except"
    /\ mstate' = [mstate EXCEPT ![loc[t].msg] = Nacked]
    /\ errors' = errors + 1
    /\ pc' = [pc EXCEPT ![t] = "idle"]
    /\ loc' = [loc EXCEPT ![t] = NoLocals]
    /\ UNCHANGED <<config, doc, buf, bcount, processed, last_message_time, pull,
                   clock, hist, finalFlush>>

\* ------------------------------------------------------- PubSubBridge.run

\* mutant: run polls for inactivity in continuous mode too
Subscribe_AlwaysPolls ==
    /\ pc[Main] = "init"
    /\ pull = "none"
    /\ pull' = "open"
    /\ pc' = [pc EXCEPT ![Main] = "sleep"]
    /\ UNCHANGED <<config, doc, mstate, buf, bcount, processed, errors,
                   last_message_time, loc, now, hist, finalFlush>>

\* mutant: only main's own look at the endpoint and the stream raises; the
\* constructor takes whatever it finds
StartupRaises_MainOnly(d) == \E i \in 1..3 : StartupReads[i] = d

\* the setting d is read, and raises, before main calls bridge.run
StartupRaises(d) == \E i \in DOMAIN StartupReads : StartupReads[i] = d

\* main from load_env to PubSubBridge(): the first read of a missing or
\* invalid setting raises out of main and the process exits; otherwise main
\* goes on to bridge.run
Startup ==
    /\ pc[Main] = "start"
    /\ pc' = [pc EXCEPT ![Main] = IF StartupRaises(defect) THEN "exit" ELSE "init"]
    /\ UNCHANGED <<config, doc, mstate, buf, bcount, processed, errors,
                   last_message_time, pull, loc, clock, hist, finalFlush>>

\* run up to the try block: subscriber.subscribe(...), then either
\* streaming_pull.result() or the first time.sleep(5) of the drain loop
Subscribe ==
    /\ pc[Main] = "init"
    /\ pull = "none"
    /\ pull' = "open"
    /\ pc' = [pc EXCEPT ![Main] = IF run_forever THEN "result" ELSE "sleep"]
    /\ UNCHANGED <<config, doc, mstate, buf, bcount, processed, errors,
                   last_message_time, loc, now, hist, finalFlush>>

\* finally: streaming_pull.cancel() stops the delivery of messages; a future
\* that already holds an exception keeps it
Cancelled(p) == IF p = "open" THEN "cancelled" ELSE p

\* drain loop, one round: time.sleep(5) returns, idle is read under the lock
\* and compared with the timeout; break leads to the finally block and its
\* cancel()
\* mutant: the loop gives up one poll interval early
IdleOut_Early(idle) == idle >= timeout - PollInterval

\* if idle >= self._timeout
IdleOut(idle) == idle >= timeout

DrainPoll ==
    /\ pc[Main] = "sleep"
    /\ now < MaxPolls * PollInterval
    /\ now' = now + PollInterval
    /\ LET idle == now' - last_message_time IN
        IF IdleOut(idle)
          THEN /\ pc' = [pc EXCEPT ![Main] = "wait"]
               /\ pull' = Cancelled(pull)
          ELSE UNCHANGED <<pc, pull>>
    /\ UNCHANGED <<config, doc, mstate, buf, bcount, processed, errors,
                   last_message_time, loc, hist, finalFlush>>

\* continuous mode: time passes while run is blocked in
\* streaming_pull.result(), which has no timeout
Tick ==
    /\ pc[Main] = "result"
    /\ now < MaxPolls * PollInterval
    /\ now' = now + PollInterval
    /\ UNCHANGED <<config, doc, mstate, buf, bcount, processed, errors,
                   last_message_time, pull, pc, loc, hist, finalFlush>>

\* KeyboardInterrupt inside the try block: logged, then the finally block
\* and its cancel()
KeyboardInterrupt ==
    /\ pc[Main] \in {"result", "sleep"}
    /\ pc' = [pc EXCEPT ![Main] = "wait"]
    /\ pull' = Cancelled(pull)
    /\ UNCHANGED <<config, doc, mstate, buf, bcount, processed, errors,
                   last_message_time, loc, clock, hist, finalFlush>>

\* The streaming pull ends with an error: its future holds the exception
\* once the callbacks have been awaited, and nothing is delivered any more.
PullError ==
    /\ pull = "open"
    /\ AllIdle
    /\ pull' = "error"
    /\ UNCHANGED <<config, doc, mstate, buf, bcount, processed, errors,
                   last_message_time, pc, loc, clock, hist, finalFlush>>

\* streaming_pull.result() of continuous mode raises the future's exception:
\* it is no KeyboardInterrupt, so the finally block runs with it pending
\* (cancel() leaves the failed future as it is)
ResultRaises ==
    /\ pc[Main] = "result"
    /\ pull = "error"
    /\ pc' = [pc EXCEPT ![Main] = "wait"]
    /\ UNCHANGED <<config, doc, mstate, buf, bcount, processed, errors,
                   last_message_time, pull, loc, clock, hist, finalFlush>>

\* finally: streaming_pull.result(timeout=10) returns once the handlers in
\* flight are done; run goes on to self.buffer.flush()
WaitReturns ==
    /\ pc[Main] = "wait"
    /\ pull = "cancelled"
    /\ AllIdle
    /\ pc' = [pc EXCEPT ![Main] = "check"]
    /\ finalFlush' = TRUE
    /\ UNCHANGED <<config, doc, mstate, buf, bcount, processed, errors,
                   last_message_time, pull, loc, clock, hist>>

\* finally: streaming_pull.result(timeout=10) raises, the future's exception
\* or TimeoutError with a handler still in flight; run is left at once
WaitRaises ==
    /\ pc[Main] = "wait"
    /\ \/ pull = "error"
       \/ pull = "cancelled" /\ ~AllIdle
    /\ pc' = [pc EXCEPT ![Main] = "raised"]
    /\ UNCHANGED <<config, doc, mstate, buf, bcount, processed, errors,
                   last_message_time, pull, loc, clock, hist, finalFlush>>

\* finally: the final logger.info, then run returns
Log ==
    /\ pc[Main] = "log"
    /\ pc' = [pc EXCEPT ![Main] = "returned"]
    /\ UNCHANGED <<config, doc, mstate, buf, bcount, processed, errors,
                   last_message_time, pull, loc, clock, hist, finalFlush>>

\* --------------------------------------------------------- specifications
Flush ==
    \E t \in Threads :
        FlushIfNeeded(t) \/ SwlLoop(t) \/ SwlTail(t) \/ FlushCommit(t)

Handle ==
    \E t \in Handlers : Add(t) \/ Ack(t) \/ Except(t)

Run ==
    \/ Subscribe \/ DrainPoll \/ Tick \/ PullError \/ ResultRaises
    \/ KeyboardInterrupt \/ WaitReturns \/ WaitRaises \/ Log

\* handlers run concurrently on the worker threads
Next ==
    \/ \E t \in Handlers, m \in DOMAIN body : Callback(t, m)
    \/ Handle
    \/ Flush
    \/ Run

Spec == Init /\ [][Next]_vars

\* one handler invocation at a time
SeqNext ==
    \/ \E t \in Handlers, m \in DOMAIN body : AllIdle /\ Callback(t, m)
    \/ Handle
    \/ Flush
    \/ Run

SeqSpec == Init /\ [][SeqNext]_vars

\* a step of the thread that executes run
MainStep ==
    \/ Subscribe \/ DrainPoll \/ ResultRaises \/ WaitReturns \/ WaitRaises
    \/ Log
    \/ FlushIfNeeded(Main) \/ SwlLoop(Main) \/ SwlTail(Main)
    \/ FlushCommit(Main)

\* one handler invocation at a time, and the main thread is never stopped
\* for ever: time.sleep(5) returns, result(timeout=10) returns or raises,
\* the calls of the final flush return or raise.  Deliveries, interrupts and
\* failures of the streaming pull may or may not happen.
FairSpec == Init /\ [][SeqNext]_vars /\ WF_vars(MainStep)

\* drain mode, one handler invocation at a time: run never blocks in
\* streaming_pull.result()
DrnNext ==
    \/ \E t \in Handlers, m \in DOMAIN body : AllIdle /\ Callback(t, m)
    \/ Handle
    \/ Flush
    \/ Subscribe \/ DrainPoll \/ PullError \/ KeyboardInterrupt
    \/ WaitReturns \/ WaitRaises \/ Log

DrnSpec == DrnInit /\ [][DrnNext]_vars

\* main from its first line on
MainNext == Startup \/ Next

MainSpec == MainInit /\ [][MainNext]_vars

\* the final flush alone, on every payload list
FnNext == FlushIfNeeded(Main) \/ SwlLoop(Main) \/ SwlTail(Main)
              \/ FlushCommit(Main) \/ Log

FnSpec == FnInit /\ [][FnNext]_vars

\* continuous mode with the messages delivered one at a time in their order
\* of publication, ended by an interrupt: adds one after another, then the
\* final flush
ScnNext ==
    \/ \E t \in Handlers, m \in DOMAIN body :
          /\ AllIdle
          /\ \A j \in DOMAIN body : j < m => mstate[j] = "acked"
          /\ Callback(t, m)
    \/ Handle
    \/ Flush
    \/ Subscribe \/ KeyboardInterrupt \/ WaitReturns \/ WaitRaises \/ Log

ScnSpec == ScnInit /\ [][ScnNext]_vars

\* adds one after another under AddLimits
AddSpec == AddInit /\ [][ScnNext]_vars

\* _enrich alone
EnrSpec == EnrInit /\ [][EnrichStep]_vars

\* ------------------------------------------------------------ vocabulary
\* thread t executes the flush body, from the call of send_with_limits until
\* the buffer is cleared
InFlush(t) == pc[t] \in {"loop", "commit"}

\* a payload of message m is in the buffer
InBuf(m) == \E i \in 1..Len(buf) : buf[i].id = m

\* buffer.add has appended the payload of message m in its current delivery
Appended(m) ==
    /\ body[m].kind \in {"text", "object"}
    /\ \/ mstate[m] = "acked"
       \/ \E t \in Handlers :
            loc[t].msg = m /\ pc[t] \in {"check", "loop", "commit", "ack"}

\* run has returned or raised
Stopped == pc[Main] \in {"returned", "raised"}

\* the flush condition as the specification words it
Crossed(b) == Len(b) >= max_count \/ EstimateBatchBytes(b) >= max_bytes

\* a sub-batch within both limits, or one payload that alone exceeds max_bytes
Legal(b) ==
    /\ Len(b) <= max_count
    /\ \/ EstimateBatchBytes(b) <= max_bytes
       \/ Len(b) = 1

\* the payload _callback hands to buffer.add for message m
Payload(m) == [id |-> m, n |-> Enrich(body[m]).n]

\* all payloads of the run together stay below max_bytes
ByteLimitNotBinding ==
    EstimateBatchBytes([m \in DOMAIN body |-> Payload(m)]) < max_bytes

\* all payloads of the run together stay below max_count
CountLimitNotBinding == Len(body) < max_count

CeilDiv(a, b) == (a + b - 1) \div b

\* no message has been delivered to a handler so far
NoDelivery ==
    /\ \A m \in DOMAIN body : mstate[m] = "pending"
    /\ errors = 0

\* the lifecycle state of the specification that run is in at position p
Phase(p) ==
    CASE p \in {"start", "exit", "init"} -> "INIT"
      [] p \in {"result", "sleep"} -> "RUNNING"
      [] p = "wait" -> "STOPPING"
      [] p \in {"check", "loop", "commit"} -> "FLUSHING"
      [] p = "log" -> "LOGGING"
      [] p \in {"returned", "raised"} -> "STOPPED"

\* the order of the lifecycle states
LifecycleOrder ==
    {<<"INIT", "RUNNING">>, <<"RUNNING", "STOPPING">>,
     <<"STOPPING", "FLUSHING">>, <<"FLUSHING", "LOGGING">>,
     <<"LOGGING", "STOPPED">>}

\* the values that body b holds under the provenance key
ProviderValues(b) ==
    [i \in {j \in 1..Len(b.members) : b.members[j].key = "cloudProvider"}
        |-> b.members[i].val]

\* body b is an object with exactly one provenance member, holding GCP
OneProvider(b) ==
    /\ b.kind = "object"
    /\ \E i \in 1..Len(b.members) : DOMAIN ProviderValues(b) = {i}
    /\ \A i \in DOMAIN ProviderValues(b) : ProviderValues(b)[i] = "GCP"

RECURSIVE Base64Chars(_)
\* base64 as it is written out: four characters for every three bytes, and
\* four more, padding included, for one or two bytes that remain
Base64Chars(n) ==
    IF n = 0 THEN 0
    ELSE IF n <= 3 THEN 4
    ELSE 4 + Base64Chars(n - 3)

RECURSIVE StatedEstimate(_)
\* the estimate as the specification states it, payload by payload
StatedEstimate(ps) ==
    IF ps = <<>> THEN 0
    ELSE Base64Chars(Head(ps).n) + 50 + StatedEstimate(Tail(ps))

\* this step is a put_messages call that raised
WireRaiseStep == wireCalls' = wireCalls + 1 /\ sentCnt' = sentCnt

\* ------------------------------------------------------------------ C1
\* C1: at any instant at most one thread executes the flush body of the
\* MessageBuffer (from the call of send_with_limits until the clear).
C1_OneFlushAtATime == Cardinality({t \in Threads : InFlush(t)}) <= 1

\* ------------------------------------------------------------------ C2
\* C2: as long as no wire call has raised, every payload appended to the
\* buffer is put on the wire at most once, and exactly once by the time it
\* has left the buffer.
C2_SentExactlyOnce ==
    ~wireRaised =>
        \A m \in DOMAIN body :
            /\ sentCnt[m] <= 1
            /\ (Appended(m) /\ ~InBuf(m)) => sentCnt[m] = 1

\* ------------------------------------------------------------------ C3
\* C3: when run has returned or raised, the forced flush was executed.
C3_FlushOnEveryExit == Stopped => finalFlush

\* ------------------------------------------------------------------ C4
\* C4: when run has returned or raised, the buffer is empty.
C4_StoppedEmpty == Stopped => buf = <<>>

\* ------------------------------------------------------------------ C5
\* C5: when send_with_limits returns, the sub-batches it sent, concatenated
\* in the order sent, are the payload list it was given, and every payload
\* of the list was put on the wire exactly once.
C5_ConcatIsInput ==
    pc[Main] = "commit" =>
        /\ loc[Main].out = buf
        /\ \A m \in DOMAIN body : sentCnt[m] = 1

\* a list of three or more payloads was split into two or more sub-batches
C5_Witness ==
    /\ pc[Main] = "commit"
    /\ Len(buf) >= 3
    /\ loc[Main].nbatches >= 2

C7_FlushIffCrossed ==
    [][\A t \in Handlers :
          /\ (pc[t] = "check" /\ pc'[t] /= "check") =>
                /\ buf /= <<>>
                /\ buf[Len(buf)].id = loc[t].msg
                /\ (pc'[t] = "loop") <=> Crossed(buf)
          /\ (pc'[t] = "loop" /\ pc[t] /= "loop") => pc[t] = "check"]_vars

\* an add started a flush on the byte threshold alone
C7_Witness ==
    \E t \in Handlers :
        /\ pc[t] = "loop"
        /\ ~wireRaised
        /\ Len(buf) < max_count
        /\ Len(buf) >= 2

\* ------------------------------------------------------------------ C8
\* C8 as claimed: once the forced flush is over, however it ended, the buffer
\* is empty.
C8_ForcedFlushEmpties ==
    (finalFlush /\ pc[Main] \in {"log", "returned", "raised"}) => buf = <<>>

\* C8 amended: a forced flush that returns leaves the buffer empty; a forced
\* flush that a wire-call failure ends leaves buffer and counters as they
\* were; a forced flush on an empty buffer returns at once with no wire call
\* and no counter changed.
C8_ForcedFlush ==
    [][/\ (pc'[Main] = "log" /\ pc[Main] /= "log") => buf' = <<>>
       /\ (pc'[Main] = "raised" /\ pc[Main] = "loop") =>
             /\ buf' = buf /\ buf /= <<>>
             /\ UNCHANGED <<sent, failed, batches, processed, errors>>
       /\ (pc[Main] = "check" /\ pc'[Main] /= "check" /\ buf = <<>>) =>
             /\ pc'[Main] = "log"
             /\ UNCHANGED <<sent, failed, batches, processed, errors,
                            wireCalls, sentCnt>>]_vars

\* a forced flush of a buffer of two payloads or more has returned
C8_Witness ==
    /\ finalFlush
    /\ pc[Main] = "log"
    /\ sent + failed >= 2
    /\ buf = <<>>

\* ------------------------------------------------------------------ C9
\* C9 as claimed: a wire-call failure in a flush triggered from a handler
\* propagates out of the handler, so no handler is ever in an except clause
\* because of it.
C9_PropagatesOutOfHandler == \A t \in Handlers : pc[t] /= "except"

\* C9 amended: a put_messages failure in a handler's flush is caught nowhere
\* in send_batch, send_with_limits or MessageBuffer (the flush is abandoned,
\* buffer and counters untouched) and lands in the except clause of
\* _callback, which nacks the message and counts one error; run is not
\* affected by either step.
C9_CaughtInHandler ==
    [][\A t \in Handlers :
          /\ (WireRaiseStep /\ (loc'[t] /= loc[t] \/ pc'[t] /= pc[t])) =>
                /\ pc[t] = "loop" /\ pc'[t] = "except"
                /\ buf' = buf
                /\ UNCHANGED <<sent, failed, batches, errors, mstate>>
                /\ pc'[Main] = pc[Main]
          /\ (pc'[t] = "except" /\ pc[t] /= "except") => WireRaiseStep
          /\ (pc[t] = "except" /\ pc'[t] /= "except") =>
                /\ pc'[t] = "idle"
                /\ mstate[loc[t].msg] = "inflight"
                /\ mstate'[loc[t].msg] = "pending"
                /\ errors' = errors + 1
                /\ buf' = buf
                /\ pc'[Main] = pc[Main]]_vars

\* a handler's wire call failed, the message was nacked and counted, and run
\* is still in its running phase
C9_Witness ==
    /\ wireRaised
    /\ errors >= 1
    /\ pc[Main] \in {"result", "sleep"}
    /\ \E m \in DOMAIN body :
          body[m].kind \in {"text", "object"} /\ mstate[m] = "pending"

\* ------------------------------------------------------------------ C10
\* C10: while a handler is in buffer.add for a message, or in the except
\* clause after add raised, that message is not acknowledged: the ack comes
\* only after add has returned.
C10_AckAfterAdd ==
    \A t \in Handlers :
        pc[t] \in {"add", "check", "loop", "commit", "except"} =>
            mstate[loc[t].msg] = "inflight"

\* a message is acknowledged while its payload sits unsent in the buffer
C10_Witness ==
    \E m \in DOMAIN body :
        /\ mstate[m] = "acked"
        /\ InBuf(m)
        /\ sentCnt[m] = 0

\* ------------------------------------------------------------------ C11
\* C11: a message whose decoded body is empty or whitespace-only is
\* acknowledged by the step that handles it, its payload is never in the
\* buffer nor on the wire, and that step leaves errors, processed, the
\* last-activity timestamp and the buffer as they were.
C11_BlankAckedAndDropped ==
    [][\A m \in DOMAIN body :
          body[m].kind = "blank" =>
              /\ \A i \in 1..Len(buf') : buf'[i].id /= m
              /\ sentCnt'[m] = 0
              /\ mstate'[m] /= mstate[m] =>
                    /\ mstate[m] = "pending"
                    /\ mstate'[m] = "acked"
                    /\ UNCHANGED <<errors, processed, last_message_time, buf,
                                   sent, failed, batches>>]_vars

\* a blank message was acknowledged and nothing was counted
C11_Witness ==
    /\ \E m \in DOMAIN body : body[m].kind = "blank" /\ mstate[m] = "acked"
    /\ processed = 0
    /\ errors = 0
    /\ buf = <<>>

\* ------------------------------------------------------------------ C12
\* C12: a message whose bytes are not valid UTF-8 is never acknowledged
\* (every delivery ends in a nack), is never in a handler's add, in the
\* buffer or on the wire, and the step that handles a delivery of it adds
\* exactly one to errors and leaves processed, the buffer and its counters
\* as they were.
C12_DecodeFailureNacked ==
    [][/\ \A m \in DOMAIN body :
             body[m].kind = "invalid" =>
                 /\ mstate'[m] = "pending"
                 /\ \A i \in 1..Len(buf') : buf'[i].id /= m
                 /\ \A t \in Handlers : loc'[t].msg /= m
                 /\ sentCnt'[m] = 0
       /\ (errors' /= errors /\ pc' = pc) =>
             /\ \E m \in DOMAIN body :
                   body[m].kind = "invalid" /\ mstate[m] = "pending"
             /\ errors' = errors + 1
             /\ UNCHANGED <<processed, last_message_time, buf, mstate,
                            sent, failed, batches>>]_vars

\* two deliveries of an undecodable message were nacked and counted
C12_Witness ==
    /\ ~wireRaised
    /\ errors = 2
    /\ processed = 0
    /\ \E m \in DOMAIN body : body[m].kind = "invalid" /\ mstate[m] = "pending"

\* ------------------------------------------------------------------ C13
\* C13: an exception in a handler (a decode failure, or one raised under
\* buffer.add) ends in the except clause, which nacks that handler's message
\* and adds exactly one to errors; the step stops nothing: the subscription
\* stays as it was, run stays where it was, the other handlers go on and
\* the handler itself is free for the next delivery.
C13_ExceptionNackedConsumerGoesOn ==
    [][/\ \A t \in Handlers :
             (pc[t] = "except" /\ pc'[t] /= "except") =>
                 /\ pc'[t] = "idle"
                 /\ mstate'[loc[t].msg] = "pending"
                 /\ errors' = errors + 1
       /\ errors' /= errors =>
             /\ errors' = errors + 1
             /\ processed' = processed
             /\ pull' = pull
             /\ pc'[Main] = pc[Main]
             /\ \A m \in DOMAIN body :
                   mstate'[m] /= mstate[m] =>
                       mstate[m] = "inflight" /\ mstate'[m] = "pending"
             /\ \A t \in Handlers :
                   pc'[t] /= pc[t] => pc[t] = "except" /\ pc'[t] = "idle"]_vars

\* after a handler's exception every message was still handled and
\* acknowledged, the nacked one included, with the subscription open
C13_Witness ==
    /\ errors >= 1
    /\ pull = "open"
    /\ \A m \in DOMAIN body : mstate[m] = "acked"
    /\ \E m \in DOMAIN body : body[m].kind \in {"text", "object"}

\* ------------------------------------------------------------------ C14
\* C14: with the byte limit never binding, no exception and all-success
\* responses, N payloads added one after another and the final forced flush
\* make ceil(N / max_count) wire calls: every flush started by an add sends
\* one sub-batch of max_count payloads, the final flush sends the remaining
\* N mod max_count payloads if there are any, and run returns with
\* sent = N, failed = 0, batches = ceil(N / max_count).
C14_CountSplit ==
    [][/\ (/\ pc'[Main] = "returned"
           /\ ByteLimitNotBinding
           /\ ~wireRaised' /\ errors' = 0 /\ failed' = 0) =>
              /\ sent' = processed'
              /\ batches' = CeilDiv(processed', max_count)
              /\ wireCalls' = batches'
              /\ \A m \in DOMAIN body :
                    sentCnt'[m] = IF mstate'[m] = "acked" THEN 1 ELSE 0
       /\ \A t \in Threads :
             (/\ wireCalls' /= wireCalls /\ loc'[t] /= loc[t]
              /\ ByteLimitNotBinding
              /\ ~wireRaised' /\ errors' = 0) =>
                 Len(loc[t].batch) =
                     IF t = Main THEN processed % max_count ELSE max_count]_vars

\* four payloads with max_count = 3 went out as sub-batches of 3 and 1
C14_Witness ==
    /\ pc[Main] = "returned"
    /\ ByteLimitNotBinding
    /\ ~wireRaised /\ errors = 0 /\ failed = 0
    /\ max_count = 3
    /\ processed = 4
    /\ batches = 2

\* ------------------------------------------------------------------ C15
\* C15 as claimed: when an add makes the buffer's estimated size exceed
\* max_bytes (the count limit not binding), the flush it triggers sends one
\* batch with all the payloads of the buffer.
C15_OneBatchOfFirstK ==
    \A t \in Handlers :
        (/\ pc[t] = "commit"
         /\ CountLimitNotBinding
         /\ ~wireRaised
         /\ EstimateBatchBytes(buf) > max_bytes) =>
            /\ loc[t].nbatches = 1
            /\ loc[t].out = buf

\* C15 amended: with the count limit not binding and no wire-call failure,
\* the add of the k-th payload since the buffer was last empty triggers a
\* flush at once exactly when the estimated size of the k payloads reaches
\* or exceeds max_bytes; the flush covers exactly these k payloads; if the
\* size equals max_bytes they go out as one sub-batch, if it exceeds
\* max_bytes the first k - 1 go out as one sub-batch and the k-th alone as
\* the next (for k = 1 the payload goes out alone after an empty sub-batch
\* that is counted but not sent).
C15_ByteTriggeredFlush ==
    [][\A t \in Handlers :
          (CountLimitNotBinding /\ ~wireRaised') =>
             /\ (pc[t] = "check" /\ pc'[t] /= "check") =>
                   ((pc'[t] = "loop") <=> (EstimateBatchBytes(buf) >= max_bytes))
             /\ (pc[t] = "loop" /\ pc'[t] = "commit") =>
                   LET k == Len(buf) IN
                   /\ k >= 1
                   /\ \A i \in 1..k : buf[i].id = loc[t].msg - k + i
                   /\ EstimateBatchBytes(SubSeq(buf, 1, k - 1)) < max_bytes
                   /\ loc'[t].out = buf
                   /\ IF EstimateBatchBytes(buf) = max_bytes
                        THEN /\ loc[t].batch = buf
                             /\ loc'[t].nbatches = 1
                        ELSE /\ EstimateBatchBytes(buf) > max_bytes
                             /\ loc[t].batch = <<buf[k]>>
                             /\ loc'[t].nbatches = 2]_vars

\* the third add crossed max_bytes: two payloads went out, then the third
C15_Witness ==
    \E t \in Handlers :
        /\ pc[t] = "commit"
        /\ CountLimitNotBinding
        /\ ~wireRaised
        /\ Len(buf) = 3
        /\ EstimateBatchBytes(buf) > max_bytes
        /\ loc[t].nbatches = 2
        /\ wireCalls = 2

\* ------------------------------------------------------------------ C16
\* C16: the batch count send_with_limits returns equals the number of
\* put_messages calls it issued.
C16_BatchCountIsWireCalls ==
    pc[Main] = "commit" => loc[Main].nbatches = wireCalls

\* ------------------------------------------------------------------ C17
\* C17: a wire call whose response reports per-entry errors adds the number
\* of these entries to failed and the rest of the sub-batch to sent, and
\* changes nothing else: the flush is not abandoned, the payloads after the
\* sub-batch are still sent, the flush ends with every payload of the buffer
\* counted once in sent or failed and the buffer cleared, and no payload is
\* put on the wire a second time.
C17_EntryErrorOnlyCounted ==
    [][\A t \in Threads :
          /\ loc'[t].total_failed > loc[t].total_failed =>
                /\ pc[t] = "loop" /\ pc'[t] \in {"loop", "commit"}
                /\ wireCalls' = wireCalls + 1
                /\ (loc'[t].total_sent - loc[t].total_sent)
                     + (loc'[t].total_failed - loc[t].total_failed)
                       = Len(loc[t].batch)
                /\ loc'[t].nbatches = loc[t].nbatches + 1
                /\ UNCHANGED <<buf, sent, failed, batches, errors,
                               processed, mstate>>
          /\ (pc[t] = "commit" /\ pc'[t] /= "commit" /\ ~wireRaised) =>
                /\ loc[t].out = buf
                /\ loc[t].total_sent + loc[t].total_failed = Len(buf)
                /\ sent' = sent + loc[t].total_sent
                /\ failed' = failed + loc[t].total_failed
                /\ buf' = <<>>
                /\ pc'[t] = IF t = Main THEN "log" ELSE "ack"
                /\ \A m \in DOMAIN body : sentCnt'[m] <= 1]_vars

\* the first sub-batch came back with an entry error and send_with_limits
\* went on to send the payloads after it
C17_Witness ==
    /\ pc[Main] = "commit"
    /\ loc[Main].total_failed = 1
    /\ loc[Main].nbatches >= 2
    /\ \E i \in 1..Len(buf) :
          /\ EstimateBatchBytes(SubSeq(buf, 1, i)) > max_bytes
          /\ EntryErrors = 1
    /\ loc[Main].total_sent = Len(buf) - 1
    /\ \A m \in DOMAIN body : sentCnt[m] = 1

\* ------------------------------------------------------------------ C18
\* C18: in drain mode, if no message is ever delivered, run eventually
\* returns after the final log, with the subscription cancelled and the
\* forced flush done on the empty buffer without any wire call and without
\* any counter changed.
C18_DrainStopsWhenIdle ==
    (~run_forever /\ []NoDelivery) =>
        <>(/\ pc[Main] = "returned"
           /\ pull = "cancelled"
           /\ finalFlush
           /\ buf = <<>>
           /\ wireCalls = 0
           /\ sent = 0 /\ failed = 0 /\ batches = 0 /\ processed = 0)

\* ------------------------------------------------------------------ C19
\* C19: run passes through the lifecycle states in the order INIT, RUNNING,
\* STOPPING (or DRAINING), FLUSHING, logging of the final counters, STOPPED,
\* skipping none; it leaves RUNNING with the subscription no longer open;
\* from the start of the final flush on no handler is in flight and nothing
\* is appended to the buffer; nothing leaves STOPPED.
C19_ShutdownOrder ==
    [][/\ Phase(pc'[Main]) /= Phase(pc[Main]) =>
             <<Phase(pc[Main]), Phase(pc'[Main])>> \in LifecycleOrder
       /\ (Phase(pc[Main]) = "RUNNING" /\ Phase(pc'[Main]) /= "RUNNING") =>
             pull' /= "open"
       /\ Phase(pc'[Main]) \in {"FLUSHING", "LOGGING"} =>
             /\ \A t \in Handlers : pc'[t] = "idle"
             /\ Len(buf') <= Len(buf)
       /\ Phase(pc[Main]) = "STOPPED" => pc'[Main] = pc[Main]]_vars

C21_NoLostUpdate ==
    ((\A t \in Threads : ~InFlush(t)) /\ ~wireRaised) =>
        /\ sent + failed = SumSeq(sentCnt)
        /\ processed =
              Cardinality({m \in DOMAIN body :
                              mstate[m] = "acked" /\ body[m].kind /= "blank"})

\* ------------------------------------------------------------------ C22
\* C22: for a JSON-object body, _enrich returns an object with exactly one
\* cloudProvider member, holding GCP whatever the input held there, and
\* _enrich of that result is the result itself; for a body that is not JSON
\* _enrich returns the body.
C22_EnrichIdempotent ==
    Len(doc) >= 2 =>
        /\ doc[1].kind = "object" =>
              /\ OneProvider(doc[2])
              /\ Len(doc) = 3 => doc[3] = doc[2]
        /\ doc[1].kind = "text" =>
              \A i \in 1..Len(doc) : doc[i] = doc[1]

\* an object that held AWS under the key twice, written with whitespace,
\* was enriched twice
C22_Witness ==
    /\ Len(doc) = 3
    /\ doc[1].kind = "object"
    /\ Len(doc[1].members) = 2
    /\ \A i \in 1..2 : doc[1].members[i] = [key |-> "cloudProvider", val |-> "AWS"]
    /\ doc[1].n /= DumpsLen(doc[1].members)
    /\ doc[2] /= doc[1]
    /\ doc[3] = doc[2]

\* ------------------------------------------------------------------ C27
\* C27 as claimed: for every body that json.loads accepts, array, string,
\* number, boolean and null included, the value _enrich returns carries the
\* provenance member.
C27_EveryJsonEnriched ==
    (Len(doc) >= 2 /\ doc[1].kind \in JsonKinds) => OneProvider(doc[2])

\* C27 amended: _enrich adds or overwrites the provenance member exactly
\* for a body that is a JSON object; every other body, the JSON arrays,
\* strings, numbers, booleans and null as well as text that is not JSON, is
\* returned unchanged.
C27_OnlyObjectsEnriched ==
    Len(doc) >= 2 =>
        IF doc[1].kind = "object"
          THEN OneProvider(doc[2])
          ELSE doc[2] = doc[1]

\* a JSON array came back from _enrich as it went in
C27_Witness ==
    /\ Len(doc) >= 2
    /\ doc[1].kind = "array"
    /\ doc[2] = doc[1]

\* ------------------------------------------------------------------ C23
\* C23: when a required setting is missing or the credential material is
\* invalid, main raises before run is called: the subscription is never
\* opened, no message is delivered, acknowledged, counted or buffered, and
\* nothing is put on the wire.
C23_ConfigErrorBeforeSubscribe ==
    defect /= "none" =>
        /\ pc[Main] \in {"start", "exit"}
        /\ pull = "none"
        /\ \A t \in Handlers : pc[t] = "idle"
        /\ \A m \in DOMAIN body : mstate[m] = "pending" /\ sentCnt[m] = 0
        /\ buf = <<>>
        /\ processed = 0 /\ errors = 0
        /\ wireCalls = 0

\* the constructor found no subscription name with messages waiting, and
\* the process has exited
C23_Witness ==
    /\ defect = "GCP_PUBSUB_SUBSCRIPTION"
    /\ pc[Main] = "exit"
    /\ \E m \in DOMAIN body : body[m].kind = "object"
    /\ pull = "none"

\* ------------------------------------------------------------------ C24
\* C24 as claimed: in drain mode a poll takes run out of RUNNING only when
\* the idle time is greater than the inactivity timeout, never when it is
\* less than or equal to it.
C24_DrainOnlyWhenExceeded ==
    [][(/\ ~run_forever
        /\ pc[Main] = "sleep" /\ pc'[Main] = "wait"
        /\ now' /= now) =>
          now' - last_message_time > timeout]_vars

\* C24 amended: in drain mode a poll takes run out of RUNNING exactly when
\* the idle time, now minus the last-activity timestamp, has reached or
\* exceeded the inactivity timeout; a poll at which it is still less than
\* the timeout leaves run in RUNNING.
C24_DrainWhenReached ==
    [][(/\ ~run_forever
        /\ pc[Main] = "sleep"
        /\ now' /= now) =>
          IF now' - last_message_time >= timeout
            THEN pc'[Main] = "wait" /\ pull' /= "open"
            ELSE pc'[Main] = "sleep" /\ pull' = pull]_vars

\* run left RUNNING at the poll at which the idle time since the last
\* message was exactly the timeout
C24_Witness ==
    /\ ~run_forever
    /\ pc[Main] = "wait"
    /\ pull = "cancelled"
    /\ now - last_message_time = timeout
    /\ processed >= 1

\* ------------------------------------------------------------------ C25
\* C25: send_with_limits closes a sub-batch in its loop exactly when the
\* candidate extended by the current payload has more than max_count
\* payloads or more than max_bytes estimated bytes; what it sends then is
\* the candidate before the extension, and the next candidate is the
\* current payload alone; otherwise the candidate is extended and nothing
\* is sent.
C25_GreedySplit ==
    [][(pc[Main] = "loop" /\ loc[Main].idx <= Len(buf) /\ loc'[Main] /= loc[Main]
        /\ ~WireRaiseStep) =>
          LET l == loc[Main]
              p == buf[l.idx]
              extended == l.batch \o <<p>>
          IN IF Len(extended) > max_count \/ EstimateBatchBytes(extended) > max_bytes
               THEN /\ loc'[Main].out = l.out \o l.batch
                    /\ loc'[Main].nbatches = l.nbatches + 1
                    /\ loc'[Main].batch = <<p>>
               ELSE /\ loc'[Main].out = l.out
                    /\ loc'[Main].nbatches = l.nbatches
                    /\ loc'[Main].batch = extended]_vars

\* a sub-batch of two was closed with room left under max_count because the
\* third payload would have taken it over max_bytes, and that payload starts
\* the next candidate
C25_Witness ==
    /\ pc[Main] = "loop"
    /\ Len(buf) >= 3
    /\ loc[Main].out = SubSeq(buf, 1, 2)
    /\ max_count >= 3
    /\ loc[Main].nbatches = 1
    /\ loc[Main].batch = <<buf[3]>>
    /\ EstimateBatchBytes(SubSeq(buf, 1, 3)) > max_bytes

\* ------------------------------------------------------------------ C26
\* C26: the estimate of a payload list is the sum of the base64 lengths of
\* the payloads plus 50 per payload: it is 0 for the empty list and additive
\* over concatenation, and both the flush condition after an add and the
\* split condition of send_with_limits decide by this estimate of what the
\* buffer, or the extended candidate, holds at that moment.
C26_EstimateIsStatedFormula ==
    /\ [](/\ EstimateBatchBytes(<<>>) = 0
          /\ EstimateBatchBytes(buf) = StatedEstimate(buf)
          /\ \A i \in 0..Len(buf) :
                EstimateBatchBytes(buf) =
                    EstimateBatchBytes(SubSeq(buf, 1, i))
                      + EstimateBatchBytes(SubSeq(buf, i + 1, Len(buf))))
    /\ [][\A t \in Threads :
            /\ (t /= Main /\ pc[t] = "check" /\ pc'[t] /= "check") =>
                  (pc'[t] = "loop" <=>
                      \/ Len(buf) >= max_count
                      \/ StatedEstimate(buf) >= max_bytes)
            /\ (/\ pc[t] = "loop" /\ loc[t].idx <= Len(buf)
                /\ loc'[t] /= loc[t] /\ ~WireRaiseStep) =>
                  (loc'[t].nbatches = loc[t].nbatches + 1 <=>
                      \/ Len(loc[t].batch) + 1 > max_count
                      \/ StatedEstimate(loc[t].batch \o <<buf[loc[t].idx]>>)
                            > max_bytes)]_vars

\* a handler flushes a buffer that is below max_count: payloads of
\* different sizes took its estimate to max_bytes
C26_Witness ==
    /\ \E t \in Handlers : pc[t] = "loop" /\ loc[t].nbatches = 1
    /\ Len(buf) >= 2
    /\ Len(buf) < max_count
    /\ \E i, j \in 1..Len(buf) : buf[i].n /= buf[j].n
    /\ EstimateBatchBytes(buf) >= max_bytes

\* ------------------------------------------------------------------ C28
\* C28: with one operation at a time and no put_messages call raised,
\* whenever no add and no flush is under way the number of payloads that
\* buffer.add has appended equals sent + failed + len(buf).
C28_Conservation ==
    (/\ ~wireRaised
     /\ \A t \in Threads : pc[t] \notin {"check", "loop", "commit"}) =>
        Cardinality({m \in DOMAIN body : Appended(m)})
            = sent + failed + Len(buf)

\* after a flush and a later add: payloads sent, one rejected by the
\* service, one waiting in the buffer
C28_Witness ==
    /\ ~wireRaised
    /\ \A t \in Threads : pc[t] \notin {"check", "loop", "commit"}
    /\ sent >= 1
    /\ failed >= 1
    /\ Len(buf) >= 1
    /\ batches >= 2

\* ------------------------------------------------------------------ C29
\* C29 as claimed: with one add at a time, max_count >= 1 and no
\* put_messages call raised, whenever add has returned the buffer holds
\* fewer than max_count payloads and its estimate is below max_bytes.
C29_BelowThresholdsAfterAdd ==
    (/\ max_count >= 1
     /\ ~wireRaised
     /\ \E m \in DOMAIN body : Appended(m)
     /\ \A t \in Handlers : pc[t] \notin {"check", "loop", "commit"}) =>
        /\ Len(buf) < max_count
        /\ EstimateBatchBytes(buf) < max_bytes

\* C29 amended: the same with max_bytes >= 1 as well; with max_bytes = 0
\* every add flushes and leaves the buffer empty, whose estimate of 0 is not
\* below max_bytes.
C29_BelowPositiveThresholds ==
    (/\ max_count >= 1 /\ max_bytes >= 1
     /\ ~wireRaised
     /\ \E m \in DOMAIN body : Appended(m)
     /\ \A t \in Handlers : pc[t] \notin {"check", "loop", "commit"}) =>
        /\ Len(buf) < max_count
        /\ EstimateBatchBytes(buf) < max_bytes

\* add has returned after flushing a buffer that its payload had taken to
\* max_count, and the buffer is empty; payloads were added before without a
\* flush
C29_Witness ==
    /\ ~wireRaised
    /\ \E t \in Handlers : pc[t] = "ack" /\ sentCnt[loc[t].msg] = 1
    /\ max_count >= 2 /\ max_bytes >= 1
    /\ batches = 1
    /\ sent + failed = max_count
    /\ buf = <<>>

\* ------------------------------------------------------------------ C30
\* C30: over the whole run, put_messages calls that raised included, the
\* payload of a message is put on the wire at most once: what a flush sent
\* before one of its wire calls raised is not sent again by a later flush.
\* Stated of the payloads that the buffer holds one copy of: a wire call
\* that carries such a payload is the first to carry it.
C30_SubmittedAtMostOnce ==
    [][\A m \in DOMAIN body :
          (/\ sentCnt'[m] > sentCnt[m]
           /\ Cardinality({i \in 1..Len(buf) : buf[i].id = m}) = 1) =>
              sentCnt[m] = 0]_vars

\* ------------------------------------------------------------------ C31
\* C31: a message that was negatively acknowledged, or not delivered yet,
\* has no payload in the buffer, and the buffer never holds two payloads of
\* one message.
C31_NackedNotBuffered ==
    /\ \A m \in DOMAIN body : mstate[m] = "pending" => ~InBuf(m)
    /\ \A i, j \in 1..Len(buf) : buf[i].id = buf[j].id => i = j

\* ------------------------------------------------------------------ C32
\* C32: a handler invocation holds its message unsettled until its last
\* step, and that step either acknowledges it or negatively acknowledges
\* it; an acknowledged message is settled for good; processed grows, by
\* one, exactly in the step that acknowledges a message whose payload
\* buffer.add has appended, and errors grows, by one, exactly in a step that
\* negatively acknowledges a message; a blank message is acknowledged with
\* neither counter changed.
C32_SettledExactlyOnce ==
    [][/\ \A t \in Handlers :
             /\ (pc[t] /= "idle" /\ pc'[t] = "idle") =>
                   LET m == loc[t].msg IN
                   /\ mstate[m] = "inflight"
                   /\ \/ /\ pc[t] = "ack"
                         /\ mstate'[m] = "acked"
                         /\ processed' = processed + 1 /\ errors' = errors
                      \/ /\ pc[t] = "except"
                         /\ mstate'[m] = "pending"
                         /\ errors' = errors + 1 /\ processed' = processed
             /\ pc'[t] /= "idle" => mstate'[loc'[t].msg] = "inflight"
       /\ \A m \in DOMAIN body :
             /\ mstate[m] = "acked" => mstate'[m] = "acked"
             /\ mstate'[m] /= mstate[m] =>
                   \/ /\ mstate[m] = "pending" /\ mstate'[m] = "inflight"
                      /\ \E t \in Handlers :
                            pc[t] = "idle" /\ pc'[t] /= "idle" /\ loc'[t].msg = m
                      /\ UNCHANGED <<processed, errors>>
                   \/ /\ mstate[m] = "pending" /\ mstate'[m] = "acked"
                      /\ body[m].kind = "blank"
                      /\ UNCHANGED <<processed, errors>>
                   \/ /\ mstate[m] = "inflight" /\ mstate'[m] = "acked"
                      /\ Appended(m)
                      /\ processed' = processed + 1 /\ errors' = errors
                   \/ /\ mstate[m] = "inflight" /\ mstate'[m] = "pending"
                      /\ errors' = errors + 1 /\ processed' = processed
       /\ processed' /= processed =>
             \E m \in DOMAIN body : mstate[m] = "inflight" /\ mstate'[m] = "acked"
       /\ errors' /= errors =>
             \/ \E m \in DOMAIN body : mstate[m] = "inflight" /\ mstate'[m] = "pending"
             \/ /\ errors' = errors + 1
                /\ \E m \in DOMAIN body : body[m].kind = "invalid" /\ mstate[m] = "pending"
                /\ UNCHANGED <<mstate, pc, processed>>]_vars

\* every way a delivery ends has happened: one message was buffered and
\* acknowledged after its first delivery was nacked on a failed wire call,
\* the other was blank and acknowledged uncounted
C32_Witness ==
    /\ AllIdle
    /\ wireRaised
    /\ errors = 1
    /\ processed = 1
    /\ \A m \in DOMAIN body : mstate[m] = "acked"
    /\ \E m \in DOMAIN body : body[m].kind = "blank"

====
